---------------------------- MODULE Spec2Model ----------------------------
(***************************************************************************)
(* Model of the crawl-and-extract engine of src/main.py: ScraperWorker     *)
(* (the worker thread: run, scrape_page, download_file and the URL         *)
(* helpers) together with the caller's one-way stop flag.                  *)
(*                                                                         *)
(* A URL string is modelled as the sequence of its lexical chunks, e.g.    *)
(*   "https://example.com/f.pdf?v=1"                                       *)
(*       = << "https://", "example.com", "/f", ".pdf", "?v=1" >>           *)
(* so that str.startswith / str.endswith / urlparse are computed on the    *)
(* chunks exactly as the code computes them on the characters.             *)
(***************************************************************************)
EXTENDS Integers, Sequences, FiniteSets, TLC

(***************************************************************************)
(* Bounds of the model                                                     *)
(***************************************************************************)
\* largest value of the max_pages option that Init draws
MaxPagesBound == 3

\* how many workers the application constructs in one session
MaxWorkers == 2

\* how many pages a worker fetches at most in the application's view
AppPagesBound == 1

\* the same for the runs in which network errors are counted
ErrorPagesBound == 4

\* largest value of max_pages for which the progress values are computed
ProgressPagesBound == 50

(***************************************************************************)
(* Strings as chunk sequences                                              *)
(***************************************************************************)
HttpSchemes == {"http://", "https://"}

OtherSchemes == {"mailto:", "javascript:"}

\* the dot-separated labels of each host name that occurs
HostLabels(h) ==
  CASE h = "example.com"      -> <<"example", "com">>
    [] h = "blog.example.com" -> <<"blog", "example", "com">>
    [] h = "other.com"        -> <<"other", "com">>
    [] OTHER                  -> <<>>

Hosts == {"example.com", "blog.example.com", "other.com"}

QueryChunks == {"?v=1"}

FragmentChunks == {"#top"}

\* str.lower() on one chunk
Lower(c) == IF c = ".PDF" THEN ".pdf" ELSE c

\* unwanted_exts of is_valid_url
unwanted_exts == {".pdf", ".doc", ".jpg", ".png", ".gif", ".zip"}

\* max_retries of scrape_page
max_retries == 3

\* WebScraperApp.max_consecutive_errors
max_consecutive_errors == 3

Last(s) == s[Len(s)]

InSeq(x, s) == \E i \in 1..Len(s) : s[i] = x

\* s.startswith(('http://', 'https://'))
StartsWithHttp(s) == Len(s) > 0 /\ Head(s) \in HttpSchemes

\* the chunks that begin with a slash: one path segment each
SlashChunks == {"/", "/a", "/b", "/f", "/i", "/logo", "/lo*go"}

\* the chunks that begin with a dot: file name extensions
DotChunks == {".pdf", ".PDF", ".png", ".html", ".jpg", ".js", ".css"}

\* s.startswith('/')
StartsWithSlash(s) == Len(s) > 0 /\ Head(s) \in SlashChunks

\* urllib.parse.urlparse(url).netloc
Netloc(url) ==
  IF Len(url) >= 2 /\ Head(url) \in HttpSchemes /\ url[2] \in Hosts
  THEN url[2] ELSE ""

\* urllib.parse.urlparse(url).path : the chunks after the netloc up to the
\* first query or fragment chunk
RECURSIVE UpToQuery(_)
UpToQuery(s) ==
  IF s = <<>> \/ Head(s) \in QueryChunks \cup FragmentChunks THEN <<>>
  ELSE <<Head(s)>> \o UpToQuery(Tail(s))

UrlPath(url) ==
  IF Netloc(url) # "" THEN UpToQuery(SubSeq(url, 3, Len(url)))
  ELSE IF StartsWithHttp(url) THEN UpToQuery(Tail(url))
  ELSE UpToQuery(url)

\* ScraperWorker.extract_base_url
extract_base_url(url) == <<Head(url), Netloc(url)>>

\* urllib.parse.urljoin(base_url, url) for a base of the form scheme://netloc
urljoin(base_url, url) ==
  IF url = <<>> THEN base_url
  ELSE IF Head(url) \in HttpSchemes \cup OtherSchemes THEN url
  ELSE base_url \o url

\* ScraperWorker.is_valid_url
is_valid_url(url) ==
  /\ StartsWithHttp(url)
  /\ ~(Lower(Last(url)) \in unwanted_exts)

\* ScraperWorker.normalize_url
normalize_url(url, base_url) ==
  IF StartsWithSlash(url) THEN urljoin(base_url, url)
  ELSE IF ~StartsWithHttp(url) THEN urljoin(base_url, url)
  ELSE url

\* str.endswith("." + suffix) on host names, by their labels
EndsWithDot(h, suffix) ==
  LET a == HostLabels(h)
      b == HostLabels(suffix)
  IN  /\ suffix # ""
      /\ Len(a) > Len(b)
      /\ SubSeq(a, Len(a) - Len(b) + 1, Len(a)) = b

\* faulty variant of is_internal_link: every URL is internal
is_internal_link_any(url, base_domain) == TRUE

\* ScraperWorker.is_internal_link
is_internal_link(url, base_domain) ==
  LET url_domain == Netloc(url)
  IN  url_domain = base_domain \/ EndsWithDot(url_domain, base_domain)

(***************************************************************************)
(* File names.  A file name is the sequence of its tokens, where "_", "*"  *)
(* and a run of digits are tokens of their own, so that two token          *)
(* sequences are equal exactly when the names are equal as strings.        *)
(***************************************************************************)
\* the characters of a slash chunk after its slash
AfterSlash(c) ==
  CASE c = "/"      -> <<>>
    [] c = "/a"     -> <<"a">>
    [] c = "/b"     -> <<"b">>
    [] c = "/f"     -> <<"f">>
    [] c = "/i"     -> <<"i">>
    [] c = "/logo"  -> <<"logo">>
    [] c = "/lo*go" -> <<"lo", "*", "go">>
    [] OTHER        -> <<c>>

\* s.split('/')[-1] on a sequence of chunks none of which ends in a slash:
\* what follows the last slash
RECURSIVE AfterLastSlash(_)
AfterLastSlash(s) ==
  IF s = <<>> THEN <<>>
  ELSE IF Last(s) \in SlashChunks THEN AfterSlash(Last(s))
  ELSE AfterLastSlash(SubSeq(s, 1, Len(s) - 1)) \o <<Last(s)>>

\* os.path.basename(path) of a URL path
basename(path) == AfterLastSlash(path)

\* '.' in name
HasDot(name) == \E i \in 1..Len(name) : name[i] \in DotChunks \cup Hosts

\* re.sub(r'[\\/*?:"<>|]', '_', filename), token by token
RECURSIVE Sanitize(_)
Sanitize(name) ==
  IF name = <<>> THEN <<>>
  ELSE <<IF Head(name) = "*" THEN "_" ELSE Head(name)>>
         \o Sanitize(Tail(name))

\* os.path.splitext(filename): the name without its extension, and the
\* extension (the last dot and what follows it, unless the name begins
\* with that dot)
splitext(filename) ==
  IF Len(filename) >= 2 /\ Last(filename) \in DotChunks
  THEN [name |-> SubSeq(filename, 1, Len(filename) - 1),
        ext  |-> <<Last(filename)>>]
  ELSE [name |-> filename, ext |-> <<>>]

\* str.replace('/', '_') applied to the chunks of a URL
RECURSIVE ReplaceSlashes(_)
ReplaceSlashes(s) ==
  IF s = <<>> THEN <<>>
  ELSE (IF Head(s) \in SlashChunks
        THEN <<"_">> \o AfterSlash(Head(s))
        ELSE <<Head(s)>>) \o ReplaceSlashes(Tail(s))

\* scrape_page, lines 357-359: the file name of the archived page
page_name(url) ==
  LET last == AfterLastSlash(Tail(url))
  IN  IF last = <<>> \/ ~HasDot(last)
      THEN ReplaceSlashes(Tail(url)) \o <<".html">>
      ELSE last

(***************************************************************************)
(* Inputs: the seed URLs, and the documents a server may answer with       *)
(***************************************************************************)
SeedUrl == <<"https://", "example.com">>

UrlA == <<"https://", "example.com", "/a">>

UrlB == <<"https://", "blog.example.com", "/b">>

UrlOther == <<"https://", "other.com">>

UrlPdf == <<"https://", "example.com", "/f", ".pdf">>

UrlPdfUpper == <<"https://", "example.com", "/f", ".PDF">>

UrlPdfQuery == <<"https://", "example.com", "/f", ".pdf", "?v=1">>

\* the seeds a caller may pass (start_scraping prefixes http:// when the
\* text has no scheme and checks nothing else)
Seeds == {SeedUrl, UrlB}

\* a parsed document: the href of each <a> and the src of each <img>, in
\* document order; the tag and stripped text of each heading and
\* paragraph; the e-mail addresses and phone numbers that extract_emails
\* and extract_phones find in its text; what extract_meta_info and
\* extract_forms return for it; the src of each <script> and the href of
\* each stylesheet <link>; and the length of the body.  This one is empty.
NoDoc ==
  [hrefs |-> <<>>, imgs |-> <<>>, texts |-> <<>>, emails |-> {},
   phones |-> {}, meta |-> "{}", forms |-> <<>>, scripts |-> <<>>,
   styles |-> <<>>, size |-> 0]

Docs ==
  { [NoDoc EXCEPT !.hrefs = << UrlB, <<"/a">> >>, !.size = 2],
    [NoDoc EXCEPT
       !.hrefs = << UrlA, UrlOther, SeedUrl, UrlA, UrlPdf, UrlPdfQuery,
                    UrlPdfUpper, <<"mailto:", "x">>, <<"#top">>,
                    <<"javascript:", "x">>, <<>> >>,
       !.imgs  = << <<"/logo", ".png">> >>,
       !.size  = 3] }

UrlIndex == <<"https://", "example.com", "/i", ".html">>

UrlBlogIndex == <<"https://", "blog.example.com", "/i", ".html">>

\* a site for the download rules: every page links to /i.html on its own
\* host and on the blog host, and shows two pictures of its own host: one
\* whose name needs sanitizing, one whose path has no extension
DownloadDocs ==
  { [NoDoc EXCEPT
       !.hrefs = << UrlBlogIndex, <<"/i", ".html">> >>,
       !.imgs  = << <<"/lo*go", ".png">>, <<"/logo">> >>,
       !.size  = 4] }

\* a page with something for every extraction rule: a link, a picture, a
\* heading and an empty paragraph, an address and a number, a title, a
\* form, a script and a stylesheet
ExtractDocs ==
  { [hrefs   |-> << <<"/a">> >>,
     imgs    |-> << <<"/logo", ".png">> >>,
     texts   |-> << [tag |-> "h1", text |-> "Title"],
                    [tag |-> "p", text |-> ""] >>,
     emails  |-> {"a@example.com"},
     phones  |-> {"+1 555 0100"},
     meta    |-> "{title: Title}",
     forms   |-> << "{action: /a, method: GET, fields: []}" >>,
     scripts |-> << <<"/a", ".js">>, <<>> >>,
     styles  |-> << <<"/a", ".css">> >>,
     size    |-> 6] }

\* a page for the resource downloads: a link, a picture, a script with a
\* file name and a <script> with an empty src, and a stylesheet whose path
\* has no extension
ResourceDocs ==
  { [NoDoc EXCEPT
       !.hrefs   = << <<"/a">> >>,
       !.imgs    = << <<"/logo", ".png">> >>,
       !.scripts = << <<"/a", ".js">>, <<>> >>,
       !.styles  = << <<"/a">> >>,
       !.size    = 7] }

\* the Content-Type headers that occur, as chunks: the media type, then
\* its parameters
TextHtml == <<"text/html">>

TextHtmlUtf8 == <<"text/html", "; charset=utf-8">>

ApplicationPdf == <<"application/pdf">>

\* faulty variant of startswith_text_html: startswith('')
startswith_empty(content_type) == TRUE

\* content_type.startswith('text/html'), line 375
startswith_text_html(content_type) ==
  Len(content_type) > 0 /\ Head(content_type) = "text/html"

\* what a successful requests.get returns: the Content-Type and the body
Responses ==
  {[ctype |-> IF d.imgs = <<>> THEN TextHtml ELSE TextHtmlUtf8, doc |-> d] :
      d \in Docs}
    \cup {[ctype |-> ApplicationPdf, doc |-> [NoDoc EXCEPT !.size = 5]]}

DownloadResponses == {[ctype |-> TextHtml, doc |-> d] : d \in DownloadDocs}

ExtractResponses == {[ctype |-> TextHtml, doc |-> d] : d \in ExtractDocs}

ResourceResponses == {[ctype |-> TextHtml, doc |-> d] : d \in ResourceDocs}

\* response.headers.get('Content-Type', '') of no response
NoResponse == [ctype |-> <<>>, doc |-> NoDoc]

\* the option dictionary of start_scraping with every extraction box
\* checked and no download box checked
ExtractAll ==
  [ max_pages         |-> 1,
    crawl_pages       |-> TRUE,
    extract_links     |-> TRUE,
    extract_images    |-> TRUE,
    extract_text      |-> TRUE,
    extract_contacts  |-> TRUE,
    extract_meta      |-> TRUE,
    extract_forms     |-> TRUE,
    extract_resources |-> TRUE,
    download_images   |-> FALSE,
    download_resources |-> FALSE,
    download_html     |-> FALSE ]

\* the option dictionaries start_scraping may build for the crawls of
\* the documents above: every extraction box checked but that of the meta
\* information, of which these documents have none (download_resources
\* is unchecked throughout)
OptionSets ==
  { [ExtractAll EXCEPT !.max_pages = n, !.crawl_pages = crawl,
                       !.extract_meta = FALSE,
                       !.download_images = images, !.download_html = html] :
      n \in 1..MaxPagesBound, crawl \in BOOLEAN, images \in BOOLEAN,
      html \in BOOLEAN }

\* the option dictionaries with any choice of extraction boxes, for a
\* crawl of two pages
ExtractOptionSets ==
  { [o EXCEPT !.max_pages = 2, !.download_images = images,
              !.download_html = html] :
      o \in [ max_pages         : {2},
              crawl_pages       : {TRUE},
              extract_links     : BOOLEAN,
              extract_images    : BOOLEAN,
              extract_text      : BOOLEAN,
              extract_contacts  : BOOLEAN,
              extract_meta      : BOOLEAN,
              extract_forms     : BOOLEAN,
              extract_resources : BOOLEAN,
              download_images   : {FALSE},
              download_resources : {FALSE},
              download_html     : {FALSE} ],
      images \in BOOLEAN, html \in BOOLEAN }

\* the option dictionaries with any choice of the link, image and resource
\* boxes and of the download boxes, for a crawl of two pages
ResourceOptionSets ==
  { [ExtractAll EXCEPT !.max_pages = 2,
                       !.extract_links = links,
                       !.extract_images = images,
                       !.extract_resources = resources,
                       !.download_images = dl_images,
                       !.download_resources = dl_resources,
                       !.download_html = dl_html] :
      links \in BOOLEAN, images \in BOOLEAN, resources \in BOOLEAN,
      dl_images \in BOOLEAN, dl_resources \in BOOLEAN, dl_html \in BOOLEAN }

\* option dictionaries with crawling on and the whole page budget
DownloadOptionSets ==
  {o \in OptionSets : o.crawl_pages /\ o.max_pages = MaxPagesBound}

(***************************************************************************)
(* State                                                                   *)
(***************************************************************************)
VARIABLES
  options,       \* self.options
  url,           \* self.url, the seed
  running,       \* self.running, the stop flag
  pc,            \* where the worker thread is
  queue,         \* self.queue
  visited_urls,  \* self.visited_urls
  next_url,      \* next_url of run / url of scrape_page
  retry_count,   \* retry_count of scrape_page
  response,      \* response of scrape_page
  todo,          \* the <img>, <script> and <link> tags of the page not
                 \* yet handled
  results,       \* self.results
  signals,       \* every signal emitted, in emission order
  requests,      \* the HTTP requests the current scrape_page call has
                 \* started, in order (history, dropped on return)
  iterations,    \* how often the body of run's while loop was entered
  fetched,       \* the page URLs whose first requests.get was issued, in
                 \* order (history)
  site,          \* the responses the servers may give during this run
  dirs,          \* the directories under the download root that exist
  writes,        \* the files opened for writing under the download root,
                 \* in order (history)
  manifest,      \* self.manifest['downloads']
  manifest_disk, \* the manifest file: whether it exists, and its content
  routed,        \* the page URLs whose response reached the extraction
                 \* step of line 378, in order (history)
  html_pages,    \* the page URLs whose request returned a text/html
                 \* response (history)
  enqueued,      \* the URLs appended to self.queue, in order (history)
  delayed,       \* time.sleep(delay) of line 506 was called since the
                 \* last fetch of a page began (history)
  scraper_thread,   \* WebScraperApp.scraper_thread: a worker, or NoThread
  start_button,     \* start_button.isEnabled()
  stop_button,      \* stop_button.isEnabled()
  threads,          \* every ScraperWorker the application has constructed,
                    \* as the application sees it
  events,           \* the signals of the workers not yet delivered to
                    \* their slots in the GUI thread, in emission order
  timer,            \* a QTimer.singleShot of stop_scraping is pending
  consecutive_errors,  \* WebScraperApp.consecutive_errors
  streak,           \* how many network_error signals were emitted since
                    \* the last page was fetched successfully and since
                    \* the last crawl was started (history)
  offers            \* for each time the user was asked whether to stop:
                    \* the streak that the network_error signal that led
                    \* to the question ended (history)

vars == <<options, url, running, pc, queue, visited_urls, next_url,
          retry_count, response, todo, results, signals, requests,
          iterations, fetched, site, dirs, writes, manifest, manifest_disk,
          routed, html_pages, enqueued, delayed, scraper_thread,
          start_button, stop_button, threads, events, timer,
          consecutive_errors, streak, offers>>

\* the state of WebScraperApp and of the threads it started
app == <<scraper_thread, start_button, stop_button, threads,
         events, timer, consecutive_errors, streak, offers>>

\* the count of network errors and its history
errs == <<consecutive_errors, streak, offers>>

\* what is fixed when the worker is constructed
env == <<site, dirs>>

\* the files of the download root as the worker sees and changes them
disk == <<writes, manifest, manifest_disk>>

\* what became of the responses
pages == <<routed, html_pages>>

\* the order of the appends to the queue, and the pauses
order == <<enqueued, delayed>>

NoUrl == <<>>

\* one emitted signal: which signal, the leading words of its message, the
\* URL the message or arguments name, and the number carried
Sig(kind, msg, u, v) == [sig |-> kind, msg |-> msg, url |-> u, val |-> v]

Req(kind, u, n) ==
  [kind |-> kind, url |-> u, attempt |-> n, running |-> running]

\* the directories create_download_directories makes, lines 193-204
AllDirs == {"root", "images", "scripts", "styles", "html"}

\* lines 208-217: the downloads part of the new manifest
EmptyDownloads ==
  [images |-> <<>>, scripts |-> <<>>, styles |-> <<>>, html |-> <<>>]

\* __init__, lines 77-81: any download option set
WantsDownloads(o) ==
  o.download_images \/ o.download_resources \/ o.download_html

\* ScraperWorker.__init__ for given options and seed and, with a download
\* option, create_download_directories: the directories are made, the
\* manifest is set up in memory, and no file is written; the download
\* root is new
InitWorker ==
  /\ dirs = IF WantsDownloads(options) THEN AllDirs ELSE {}
  /\ writes = <<>>
  /\ manifest = EmptyDownloads
  /\ manifest_disk = [exists |-> FALSE, downloads |-> EmptyDownloads]
  /\ routed = <<>>
  /\ html_pages = {}
  /\ enqueued = <<>>
  /\ delayed = FALSE
  /\ running = TRUE
  /\ pc = "idle"
  /\ queue = <<>>
  /\ visited_urls = {}
  /\ next_url = NoUrl
  /\ retry_count = 0
  /\ response = NoResponse
  /\ todo = <<>>
  /\ results = [links |-> {}, internal_links |-> {}, external_links |-> {},
                images |-> {}, emails |-> {}, phones |-> {},
                texts |-> <<>>, forms |-> <<>>, meta |-> {},
                scripts |-> {}, stylesheets |-> {},
                downloaded_images |-> <<>>,
                downloaded_scripts |-> <<>>,
                downloaded_stylesheets |-> <<>>,
                downloaded_html |-> <<>>, visited_pages |-> 0,
                total_data_size |-> 0, errors |-> <<>>]
  /\ signals = <<>>
  /\ requests = <<>>
  /\ iterations = 0
  /\ fetched = <<>>

NoThread == 0

Workers == 1..MaxWorkers

\* a worker the application has not constructed yet
NoWorker ==
  [state |-> "none", running |-> TRUE, raised |-> FALSE,
   attempts |-> 0, visited |-> 0]

\* WebScraperApp.__init__ and init_ui
InitApp ==
  /\ scraper_thread = NoThread
  /\ start_button = TRUE
  /\ stop_button = FALSE
  /\ threads = [w \in Workers |-> NoWorker]
  /\ events = <<>>
  /\ timer = FALSE
  /\ consecutive_errors = 0
  /\ streak = 0
  /\ offers = <<>>

\* a worker constructed by start_scraping, before its thread is started
Init ==
  /\ options \in OptionSets
  /\ url \in Seeds
  /\ site = Responses
  /\ InitWorker
  /\ InitApp

(***************************************************************************)
(* ScraperWorker.run                                                       *)
(***************************************************************************)
\* the per-call state of scrape_page
locals == <<retry_count, response, todo, requests>>

\* run, line 515: the seed goes into the queue unchecked
Start ==
  /\ pc = "idle"
  /\ queue' = Append(queue, url)
  /\ enqueued' = Append(enqueued, url)
  /\ pc' = "loop"
  /\ UNCHANGED <<options, url, running, visited_urls, next_url, locals,
                 results, signals, iterations, fetched,
                 env, disk, pages, delayed, app>>

\* faulty variant of LoopCond: <= for <
LoopCondLe ==
  /\ queue # <<>>
  /\ running
  /\ Cardinality(visited_urls) <= options.max_pages

\* faulty variant of LoopCond: self.running is not tested
LoopCondNoStop ==
  /\ queue # <<>>
  /\ Cardinality(visited_urls) < options.max_pages

\* the while condition of run, lines 518-519
LoopCond ==
  /\ queue # <<>>
  /\ running
  /\ Cardinality(visited_urls) < options.max_pages

\* faulty variant of pop0: list.pop(), the last item
pop_last(q) == [item |-> Last(q), rest |-> SubSeq(q, 1, Len(q) - 1)]

\* list.pop(0): the item taken and the list that is left
pop0(q) == [item |-> Head(q), rest |-> Tail(q)]

\* one pass through the while header and queue.pop(0)
LoopNext ==
  /\ pc = "loop"
  /\ LoopCond
  /\ next_url' = pop0(queue).item
  /\ queue' = pop0(queue).rest
  /\ iterations' = iterations + 1
  /\ pc' = "scrape"
  /\ UNCHANGED <<options, url, running, visited_urls, locals, results,
                 signals, fetched,
                 env, disk, pages, order, app>>

\* faulty variant of ExitSignals: finished is emitted before the result
ExitSignalsFinishedFirst ==
  IF ~running
  THEN << Sig("status", "Scraping stopped by user", NoUrl, 0),
          Sig("finished", "", NoUrl, 0),
          Sig("finished", "", NoUrl, 0) >>
  ELSE << Sig("finished", "", NoUrl, 0),
          Sig("result", "", NoUrl, results.visited_pages),
          Sig("status", "Scraping completed", NoUrl, 0) >>

\* the signals run emits after the loop: the stopped branch returns inside
\* the try, so the finally clause emits finished once more
ExitSignals ==
  IF ~running
  THEN << Sig("status", "Scraping stopped by user", NoUrl, 0),
          Sig("finished", "", NoUrl, 0),
          Sig("finished", "", NoUrl, 0) >>
  ELSE << Sig("result", "", NoUrl, results.visited_pages),
          Sig("status", "Scraping completed", NoUrl, 0),
          Sig("finished", "", NoUrl, 0) >>

\* lines 518-519 false, then lines 529-562
LoopExit ==
  /\ pc = "loop"
  /\ ~LoopCond
  /\ signals' = signals \o ExitSignals
  /\ pc' = "done"
  /\ UNCHANGED <<options, url, running, queue, visited_urls, next_url,
                 locals, results, iterations, fetched,
                 env, disk, pages, order, app>>

\* ScraperWorker.stop, called by the caller while the thread is alive
Stop ==
  /\ pc \notin {"idle", "done"}
  /\ running
  /\ running' = FALSE
  /\ UNCHANGED <<options, url, pc, queue, visited_urls, next_url, locals,
                 results, signals, iterations, fetched,
                 env, disk, pages, order, app>>

(***************************************************************************)
(* ScraperWorker.scrape_page                                               *)
(***************************************************************************)
Emit(kind, msg, u, v) == Append(signals, Sig(kind, msg, u, v))

\* scrape_page returns to the loop of run; its locals are gone
Return ==
  /\ pc' = "loop"
  /\ retry_count' = 0
  /\ response' = NoResponse
  /\ todo' = <<>>
  /\ requests' = <<>>

\* faulty variant of MarkVisited: the URL is not added
MarkVisitedNot(u) == visited_urls

\* self.visited_urls.add(url)

MarkVisited(u) == visited_urls \cup {u}

\* lines 305-336: the two guards, the visited mark, and the first
\* requests.get, which is then in flight.  No blocking call lies between
\* the test of self.running and the request, so they are one step.
ScrapePage ==
  /\ pc = "scrape"
  /\ IF next_url \in visited_urls \/ ~running
     THEN /\ Return
          /\ UNCHANGED <<visited_urls, signals, fetched, delayed>>
     ELSE /\ visited_urls' = MarkVisited(next_url)
          /\ fetched' = Append(fetched, next_url)
          /\ delayed' = FALSE
          /\ signals' = Emit("status", "Scraping", next_url, 0)
          /\ retry_count' = 0
          /\ requests' = Append(requests, Req("page", next_url, 1))
          /\ pc' = "get"
          /\ UNCHANGED <<response, todo>>
  /\ UNCHANGED <<options, url, running, queue, next_url, results,
                 iterations,
                 env, disk, pages, enqueued, app>>

\* lines 331-338: the request in flight returns a 2xx response
GetOk ==
  /\ pc = "get"
  /\ \E r \in site : response' = r
  /\ html_pages' = IF startswith_text_html(response'.ctype)
                   THEN html_pages \cup {next_url}
                   ELSE html_pages
  /\ pc' = "archive"
  /\ UNCHANGED <<options, url, running, queue, visited_urls, next_url,
                 retry_count, todo, requests, results, signals, iterations,
                 fetched, env, disk, routed, order, app>>

\* faulty variants of GivesUp: never, and one attempt early
GivesUpNever(n) == FALSE

GivesUpEarly(n) == n >= max_retries - 1

\* retry_count >= max_retries, the test that gives up

GivesUp(n) == n >= max_retries

\* lines 339-346: the request in flight raises a RequestException; either
\* the URL is given up, or after time.sleep(1) the while loop issues the
\* next requests.get (self.running is not read on this path)
GetFail ==
  /\ pc = "get"
  /\ IF GivesUp(retry_count + 1)
     THEN /\ signals' = Emit("network_error", "", next_url, 0)
          /\ results' = [results EXCEPT !.errors = Append(@, next_url)]
          /\ Return
     ELSE /\ retry_count' = retry_count + 1
          /\ requests' =
               Append(requests, Req("page", next_url, retry_count + 2))
          /\ UNCHANGED <<pc, response, todo, signals, results>>
  /\ UNCHANGED <<options, url, running, queue, visited_urls, next_url,
                 iterations, fetched,
                 env, disk, pages, order, app>>

\* lines 352-376: byte counter, optional archive of the body, and the
\* Content-Type test
Archive ==
  /\ pc = "archive"
  /\ LET html_path == [dir |-> "html", name |-> page_name(next_url)]
     IN  IF options.download_html /\ "html" \in dirs
         THEN /\ writes' = Append(writes, html_path)
              /\ results' =
                   [results EXCEPT
                      !.total_data_size = @ + response.doc.size,
                      !.downloaded_html =
                         Append(@, [url |-> next_url,
                                    local_path |-> html_path])]
         ELSE /\ results' =
                   [results EXCEPT
                      !.total_data_size = @ + response.doc.size]
              /\ UNCHANGED writes
  /\ IF startswith_text_html(response.ctype)
     THEN /\ pc' = "links"
          /\ routed' = Append(routed, next_url)
          /\ UNCHANGED locals
     ELSE /\ Return
          /\ UNCHANGED routed
  /\ UNCHANGED <<options, url, running, queue, visited_urls, next_url,
                 signals, iterations, fetched,
                 env, manifest, manifest_disk, html_pages, order,
                 app>>

\* lines 356-363 raise (open or write of the archive file fails): the
\* byte counter is already updated; lines 508-509 emit the error signal and
\* nothing else
ArchiveRaise ==
  /\ pc = "archive"
  /\ options.download_html
  /\ results' = [results EXCEPT !.total_data_size = @ + response.doc.size]
  /\ signals' = Emit("error", "Error scraping", next_url, 0)
  /\ Return
  /\ UNCHANGED <<options, url, running, queue, visited_urls, next_url,
                 iterations, fetched,
                 env, disk, pages, order, app>>

\* faulty variant of ShouldEnqueue: full_url not in self.queue is missing
ShouldEnqueueDup(full_url, q) ==
  /\ options.crawl_pages
  /\ Cardinality(visited_urls) < options.max_pages
  /\ full_url \notin visited_urls

\* faulty variant of ShouldEnqueue: the page budget is not tested
ShouldEnqueueNoBudget(full_url, q) ==
  /\ options.crawl_pages
  /\ full_url \notin visited_urls
  /\ ~InSeq(full_url, q)

\* faulty variant of ShouldEnqueue: crawl_pages and the page budget are
\* not tested
ShouldEnqueueAlways(full_url, q) ==
  /\ full_url \notin visited_urls
  /\ ~InSeq(full_url, q)

\* lines 407-410: the test guarding self.queue.append(full_url)
ShouldEnqueue(full_url, q) ==
  /\ options.crawl_pages
  /\ Cardinality(visited_urls) < options.max_pages
  /\ full_url \notin visited_urls
  /\ ~InSeq(full_url, q)

\* lines 388-392: href is empty, or starts with javascript: or #
SkipHref(href) ==
  \/ href = <<>>
  \/ Head(href) = "javascript:"
  \/ Head(href) \in FragmentChunks

\* lines 387-413, one <a> tag; st holds the link sets and the queue
LinkStep(href, base_url, st) ==
  IF SkipHref(href) THEN st
  ELSE LET full_url == normalize_url(href, base_url)
           base_domain == Netloc(base_url)
       IN  IF ~is_valid_url(full_url) THEN st
           ELSE IF is_internal_link(full_url, base_domain)
           THEN [st EXCEPT
                   !.links = @ \cup {full_url},
                   !.internal_links = @ \cup {full_url},
                   !.queue = IF ShouldEnqueue(full_url, @)
                             THEN Append(@, full_url) ELSE @]
           ELSE [st EXCEPT
                   !.links = @ \cup {full_url},
                   !.external_links = @ \cup {full_url}]

RECURSIVE LinksLoop(_, _, _)
LinksLoop(hrefs, base_url, st) ==
  IF hrefs = <<>> THEN st
  ELSE LinksLoop(Tail(hrefs), base_url, LinkStep(Head(hrefs), base_url, st))

\* lines 378-413: base URL, parse, then the link loop (when extract_links
\* is set)
ExtractLinks ==
  /\ pc = "links"
  /\ LET st0 == [links |-> results.links,
                 internal_links |-> results.internal_links,
                 external_links |-> results.external_links,
                 queue |-> queue]
     IN  \E st \in {IF options.extract_links
                    THEN LinksLoop(response.doc.hrefs,
                                   extract_base_url(next_url), st0)
                    ELSE st0} :
           /\ results' = [results EXCEPT
                            !.links = st.links,
                            !.internal_links = st.internal_links,
                            !.external_links = st.external_links]
           /\ queue' = st.queue
           /\ enqueued' =
                enqueued \o SubSeq(st.queue, Len(queue) + 1, Len(st.queue))
  /\ todo' = IF options.extract_images THEN response.doc.imgs ELSE <<>>
  /\ pc' = "images"
  /\ UNCHANGED <<options, url, running, visited_urls, next_url, retry_count,
                 response, requests, signals, iterations, fetched,
                 env, disk, pages, delayed, app>>

\* lines 417-425 for one <img>: record the source; with download_images,
\* download_file (lines 222-263) returns None when stopped, else starts
\* its request
Image ==
  /\ pc = "images"
  /\ todo # <<>>
  /\ LET full_src == normalize_url(Head(todo), extract_base_url(next_url))
     IN  /\ results' = [results EXCEPT !.images = @ \cup {full_src}]
         /\ IF options.download_images /\ running
            THEN /\ requests' = Append(requests, Req("image", full_src, 1))
                 /\ pc' = "imgget"
                 /\ UNCHANGED todo
            ELSE /\ todo' = Tail(todo)
                 /\ UNCHANGED <<requests, pc>>
  /\ UNCHANGED <<options, url, running, queue, visited_urls, next_url,
                 retry_count, response, signals, iterations, fetched,
                 env, disk, pages, order, app>>

(***************************************************************************)
(* ScraperWorker.download_file                                             *)
(***************************************************************************)
\* the files that exist under the download root
files == {writes[i] : i \in 1..Len(writes)}

\* os.path.exists(os.path.join(directory, filename))
path_exists(directory, filename) ==
  [dir |-> directory, name |-> filename] \in files

\* lines 229-244 for an image: the basename of the URL path, or a
\* numbered name when it is empty or has no dot, then sanitized (the
\* one-element set gives the local variable filename its value)
image_filename(u) ==
  CHOOSE sanitized \in
    { Sanitize(IF filename = <<>> \/ ~HasDot(filename)
               THEN <<"image", "_",
                      ToString(Len(results.downloaded_images) + 1), ".jpg">>
               ELSE filename) :
        filename \in {basename(UrlPath(u))} } : TRUE

\* faulty variant of free_filename: the name is taken as it is
free_filename_same(directory, orig_filename, filename, counter) == filename

\* lines 247-252: while the name exists, try name_counter.ext
RECURSIVE free_filename(_, _, _, _)
free_filename(directory, orig_filename, filename, counter) ==
  IF path_exists(directory, filename)
  THEN LET parts == splitext(orig_filename)
       IN  free_filename(directory, orig_filename,
                         parts.name \o <<"_", ToString(counter)>> \o parts.ext,
                         counter + 1)
  ELSE filename

\* lines 247-255: the path download_file writes to
filepath(u, directory) ==
  CHOOSE path \in
    { [dir  |-> directory,
       name |-> free_filename(directory, orig_filename, orig_filename, 1)] :
        orig_filename \in {image_filename(u)} } : TRUE

\* lines 270-275: the record appended to the manifest
DownloadRecord(u, path) == [url |-> u, local_path |-> path]

\* lines 265-299 and 426-430: the download succeeded: the file is written,
\* the record appended, the manifest file rewritten, the path returned
ImageOk ==
  /\ pc = "imgget"
  /\ \E full_src \in {normalize_url(Head(todo), extract_base_url(next_url))} :
     \E path \in {filepath(full_src, "images")} :
       /\ writes' = Append(writes, path)
       /\ manifest' =
            [manifest EXCEPT
               !.images = Append(@, DownloadRecord(full_src, path))]
       /\ manifest_disk' = [exists |-> TRUE, downloads |-> manifest']
       /\ results' =
            [results EXCEPT
               !.downloaded_images =
                  Append(@, [url |-> full_src, local_path |-> path])]
  /\ todo' = Tail(todo)
  /\ pc' = "images"
  /\ UNCHANGED <<options, url, running, queue, visited_urls, next_url,
                 retry_count, response, requests, signals, iterations,
                 fetched, env, pages, order, app>>

\* where download_file may raise: urlopen (line 266, no file is made) and
\* the rewrite of the manifest file (line 296, the file is there and the
\* record is in memory)
DownloadStages == {"urlopen", "manifest"}

\* lines 301-303: the download raised; error signal, None returned
ImageFail ==
  /\ pc = "imgget"
  /\ \E full_src \in {normalize_url(Head(todo), extract_base_url(next_url))} :
     \E path \in {filepath(full_src, "images")} :
       /\ signals' = Emit("error", "Error downloading", full_src, 0)
       /\ \E stage \in DownloadStages :
            /\ writes' = IF stage = "urlopen" THEN writes
                         ELSE Append(writes, path)
            /\ manifest' =
                 IF stage = "manifest"
                 THEN [manifest EXCEPT
                         !.images = Append(@, DownloadRecord(full_src, path))]
                 ELSE manifest
  /\ todo' = Tail(todo)
  /\ pc' = "images"
  /\ UNCHANGED <<options, url, running, queue, visited_urls, next_url,
                 retry_count, response, requests, results, iterations,
                 fetched, env, manifest_disk, pages, order, app>>

\* the pairs visited_pages, max_pages with visited_pages <= max_pages < 100
\* for which the double (visited_pages / max_pages) * 100 lies below the
\* integer that the exact quotient is: 29 / 50 is the double next below
\* 0.58, and its product with 100 is rounded to the double next below 58
RoundedBelow == {<<29, 50>>}

\* int((visited_pages / max_pages) * 100) of line 502, in doubles, for
\* visited_pages <= max_pages < 100: the integer quotient, but for the
\* pairs above
int_percent(visited_pages, max_pages) ==
  LET q == (visited_pages * 100) \div max_pages
  IN  IF <<visited_pages, max_pages>> \in RoundedBelow THEN q - 1 ELSE q

\* line 502: min(100, int((visited_pages / max_pages) * 100))
Progress(visited_pages, max_pages) ==
  LET p == int_percent(visited_pages, max_pages)
  IN  IF p < 100 THEN p ELSE 100

Range(v) == {v[i] : i \in 1..Len(v)}

\* lines 434-441: a record for each heading and paragraph of the page
\* whose stripped text is not empty
page_texts ==
  LET kept == SelectSeq(response.doc.texts, LAMBDA t : t.text # "")
  IN  [i \in 1..Len(kept) |->
         [url |-> next_url, tag |-> kept[i].tag, text |-> kept[i].text]]

\* faulty variant of text_rule: extract_text is not tested
text_rule_always(r) == [r EXCEPT !.texts = @ \o page_texts]

\* lines 433-441
text_rule(r) ==
  IF options.extract_text
  THEN [r EXCEPT !.texts = @ \o page_texts]
  ELSE r

\* lines 444-447
contacts_rule(r) ==
  IF options.extract_contacts
  THEN [r EXCEPT !.emails = @ \cup response.doc.emails,
                 !.phones = @ \cup response.doc.phones]
  ELSE r

\* lines 450-453: results['meta'] as the set of its items
meta_rule(r) ==
  IF options.extract_meta /\ ~(\E item \in r.meta : item.url = next_url)
  THEN [r EXCEPT !.meta = @ \cup {[url |-> next_url,
                                   meta |-> response.doc.meta]}]
  ELSE r

\* lines 456-463: a record for each form of the page
page_forms ==
  [i \in 1..Len(response.doc.forms) |->
     [url |-> next_url, form |-> response.doc.forms[i]]]

forms_rule(r) ==
  IF options.extract_forms
  THEN [r EXCEPT !.forms = @ \o page_forms]
  ELSE r

\* lines 467-471 and 482-486: the normalized URLs of the sources that are
\* not empty
page_sources(srcs) ==
  {normalize_url(src, extract_base_url(next_url)) :
     src \in Range(srcs) \ {<<>>}}

\* lines 466-495, download_resources not set
resources_rule(r) ==
  IF options.extract_resources
  THEN [r EXCEPT
          !.scripts = @ \cup page_sources(response.doc.scripts),
          !.stylesheets = @ \cup page_sources(response.doc.styles)]
  ELSE r

\* the extraction rules after the image rule, in the order of the code,
\* each with its option
LaterRules == <<"text", "contacts", "meta", "forms", "resources">>

RuleEnabled(rule) ==
  CASE rule = "text"      -> options.extract_text
    [] rule = "contacts"  -> options.extract_contacts
    [] rule = "meta"      -> options.extract_meta
    [] rule = "forms"     -> options.extract_forms
    [] rule = "resources" -> options.extract_resources

ApplyRule(rule, r) ==
  CASE rule = "text"      -> text_rule(r)
    [] rule = "contacts"  -> contacts_rule(r)
    [] rule = "meta"      -> meta_rule(r)
    [] rule = "forms"     -> forms_rule(r)
    [] rule = "resources" -> resources_rule(r)

\* the results after the first k of the later rules
RECURSIVE RulesUpTo(_, _)
RulesUpTo(k, r) ==
  IF k = 0 THEN r ELSE ApplyRule(LaterRules[k], RulesUpTo(k - 1, r))

\* faulty variant of DownloadsResources: extract_resources is not tested
DownloadsResourcesUngated == options.download_resources

\* lines 466 and 474: scripts and stylesheets are downloaded as they
\* are extracted
DownloadsResources ==
  options.extract_resources /\ options.download_resources

\* lines 467-469 and 482-484: the <script> sources and then the
\* stylesheet hrefs of the page that are not empty, each with the
\* file_type it is downloaded as
page_resources ==
  LET scripts == SelectSeq(response.doc.scripts, LAMBDA src : src # <<>>)
      styles  == SelectSeq(response.doc.styles, LAMBDA src : src # <<>>)
  IN  [i \in 1..Len(scripts) |-> [file_type |-> "script", src |-> scripts[i]]]
        \o [i \in 1..Len(styles) |->
              [file_type |-> "stylesheet", src |-> styles[i]]]

\* lines 432-466 with download_resources: the rules before the resource
\* rule are done, and the loops of lines 467 and 482 begin
Resources ==
  /\ pc = "images"
  /\ todo = <<>>
  /\ DownloadsResources
  /\ \E r \in {RulesUpTo(Len(LaterRules) - 1, results)} : results' = r
  /\ todo' = page_resources
  /\ pc' = "resources"
  /\ UNCHANGED <<options, url, running, queue, visited_urls, next_url,
                 retry_count, response, requests, signals, iterations,
                 fetched, env, disk, pages, order, app>>

\* the set of results a source is added to, the directory it is
\* downloaded to, which is also the name of its list in the manifest, and
\* the list of results its download is appended to
resource_set(file_type) ==
  IF file_type = "script" THEN "scripts" ELSE "stylesheets"

resource_dir(file_type) ==
  IF file_type = "script" THEN "scripts" ELSE "styles"

downloaded_list(file_type) ==
  IF file_type = "script" THEN "downloaded_scripts"
  ELSE "downloaded_stylesheets"

\* lines 470-475 and 485-490 for one source: record it; download_file
\* (lines 222-263) returns None when stopped, else starts its request
Resource ==
  /\ pc = "resources"
  /\ todo # <<>>
  /\ LET file_type == Head(todo).file_type
         full_src == normalize_url(Head(todo).src,
                                   extract_base_url(next_url))
     IN  /\ results' = [results EXCEPT
                          ![resource_set(file_type)] = @ \cup {full_src}]
         /\ IF running
            THEN /\ requests' = Append(requests, Req(file_type, full_src, 1))
                 /\ pc' = "resget"
                 /\ UNCHANGED todo
            ELSE /\ todo' = Tail(todo)
                 /\ UNCHANGED <<requests, pc>>
  /\ UNCHANGED <<options, url, running, queue, visited_urls, next_url,
                 retry_count, response, signals, iterations, fetched,
                 env, disk, pages, order, app>>

\* lines 229-244 for a script or a stylesheet
resource_filename(u, file_type) ==
  CHOOSE sanitized \in
    { Sanitize(IF filename = <<>> \/ ~HasDot(filename)
               THEN IF file_type = "script"
                    THEN <<"script", "_",
                           ToString(Len(results.downloaded_scripts) + 1),
                           ".js">>
                    ELSE <<"style", "_",
                           ToString(Len(results.downloaded_stylesheets) + 1),
                           ".css">>
               ELSE filename) :
        filename \in {basename(UrlPath(u))} } : TRUE

\* lines 247-255 for a script or a stylesheet
resource_path(u, file_type) ==
  CHOOSE path \in
    { [dir  |-> resource_dir(file_type),
       name |-> free_filename(resource_dir(file_type), orig_filename,
                              orig_filename, 1)] :
        orig_filename \in {resource_filename(u, file_type)} } : TRUE

\* lines 265-299 and 476-480 or 491-495: the download succeeded
ResourceOk ==
  /\ pc = "resget"
  /\ \E file_type \in {Head(todo).file_type} :
     \E full_src \in {normalize_url(Head(todo).src,
                                    extract_base_url(next_url))} :
     \E path \in {resource_path(full_src, file_type)} :
       /\ writes' = Append(writes, path)
       /\ manifest' =
            [manifest EXCEPT
               ![resource_dir(file_type)] =
                  Append(@, DownloadRecord(full_src, path))]
       /\ manifest_disk' = [exists |-> TRUE, downloads |-> manifest']
       /\ results' =
            [results EXCEPT
               ![downloaded_list(file_type)] =
                  Append(@, [url |-> full_src, local_path |-> path])]
  /\ todo' = Tail(todo)
  /\ pc' = "resources"
  /\ UNCHANGED <<options, url, running, queue, visited_urls, next_url,
                 retry_count, response, requests, signals, iterations,
                 fetched, env, pages, order, app>>

\* lines 301-303: the download raised; error signal, None returned
ResourceFail ==
  /\ pc = "resget"
  /\ \E file_type \in {Head(todo).file_type} :
     \E full_src \in {normalize_url(Head(todo).src,
                                    extract_base_url(next_url))} :
     \E path \in {resource_path(full_src, file_type)} :
       /\ signals' = Emit("error", "Error downloading", full_src, 0)
       /\ \E stage \in DownloadStages :
            /\ writes' = IF stage = "urlopen" THEN writes
                         ELSE Append(writes, path)
            /\ manifest' =
                 IF stage = "manifest"
                 THEN [manifest EXCEPT
                         ![resource_dir(file_type)] =
                            Append(@, DownloadRecord(full_src, path))]
                 ELSE manifest
  /\ todo' = Tail(todo)
  /\ pc' = "resources"
  /\ UNCHANGED <<options, url, running, queue, visited_urls, next_url,
                 retry_count, response, requests, results, iterations,
                 fetched, env, manifest_disk, pages, order, app>>

\* lines 432-506: the extraction rules that are left (all that follow the
\* image rule, or none after the downloads of the resource rule), the
\* page counter, the progress signal and the delay
FinishPage ==
  /\ IF pc = "resources" THEN todo = <<>>
     ELSE pc = "images" /\ todo = <<>> /\ ~DownloadsResources
  /\ \E r \in {IF pc = "resources" THEN results
                ELSE RulesUpTo(Len(LaterRules), results)} :
       results' = [r EXCEPT !.visited_pages = @ + 1]
  /\ signals' = IF options.max_pages > 0
                THEN Emit("progress", "", NoUrl,
                          Progress(results.visited_pages + 1,
                                   options.max_pages))
                ELSE signals
  /\ delayed' = TRUE
  /\ Return
  /\ UNCHANGED <<options, url, running, queue, visited_urls, next_url,
                 iterations, fetched,
                 env, disk, pages, enqueued, app>>

\* one of the extraction rules of lines 432-495 that are enabled raises
\* before it has added anything; the rules before it are done: lines
\* 508-509
ExtractRaise ==
  /\ pc = "images"
  /\ todo = <<>>
  /\ \E k \in 1..Len(LaterRules) :
       /\ RuleEnabled(LaterRules[k])
       /\ \E r \in {RulesUpTo(k - 1, results)} : results' = r
  /\ signals' = Emit("error", "Error scraping", next_url, 0)
  /\ Return
  /\ UNCHANGED <<options, url, running, queue, visited_urls, next_url,
                 iterations, fetched,
                 env, disk, pages, order, app>>

(***************************************************************************)
(* Specifications                                                          *)
(***************************************************************************)
\* the steps of the worker thread but for the downloads of scripts and
\* stylesheets
Worker ==
  \/ Start
  \/ LoopNext
  \/ LoopExit
  \/ ScrapePage
  \/ GetOk
  \/ GetFail
  \/ Archive
  \/ ArchiveRaise
  \/ ExtractLinks
  \/ Image
  \/ ImageOk
  \/ ImageFail
  \/ FinishPage
  \/ ExtractRaise

\* a run with download_resources unchecked, as every run below but those
\* of ResourceSpec is
Next == Worker \/ Stop

Spec == Init /\ [][Next]_vars

\* the worker thread keeps running and every request returns or fails
FairSpec == Spec /\ WF_vars(Worker)

\* a worker constructed for a crawl of the download site
DownloadInit ==
  /\ options \in DownloadOptionSets
  /\ url = SeedUrl
  /\ site = DownloadResponses
  /\ InitWorker
  /\ InitApp

DownloadSpec == DownloadInit /\ [][Next]_vars

\* a worker constructed with any choice of extraction boxes, for a site
\* whose pages have something for every rule
ExtractInit ==
  /\ options \in ExtractOptionSets
  /\ url = SeedUrl
  /\ site = ExtractResponses
  /\ InitWorker
  /\ InitApp

ExtractSpec == ExtractInit /\ [][Next]_vars

\* the steps of a worker that may download scripts and stylesheets
ResourceWorker ==
  \/ Worker
  \/ Resources
  \/ Resource
  \/ ResourceOk
  \/ ResourceFail

ResourceNext == ResourceWorker \/ Stop

\* a worker constructed with any choice of download boxes, for a site
\* whose pages have a picture, a script and a stylesheet
ResourceInit ==
  /\ options \in ResourceOptionSets
  /\ url = SeedUrl
  /\ site = ResourceResponses
  /\ InitWorker
  /\ InitApp

ResourceSpec == ResourceInit /\ [][ResourceNext]_vars

\* lines 518-495 for a page that is fetched and extracted without a
\* failure, as far as the page counter and the progress see it: the worker
\* is at the end of the extraction rules
PageExtracted ==
  /\ pc = "loop"
  /\ running
  /\ results.visited_pages < options.max_pages
  /\ pc' = "images"
  /\ UNCHANGED <<options, url, running, queue, visited_urls, next_url,
                 locals, results, signals, iterations, fetched,
                 env, disk, pages, order, app>>

\* the option dictionaries of the runs whose progress values are computed
ProgressOptionSets ==
  {[ExtractAll EXCEPT !.max_pages = n] : n \in 1..ProgressPagesBound}

\* a worker whose run has begun
ProgressInit ==
  /\ options \in ProgressOptionSets
  /\ url = SeedUrl
  /\ site = Responses
  /\ InitWorker
  /\ InitApp

ProgressNext == Start \/ PageExtracted \/ FinishPage

\* the page counter and the progress signal of runs with up to
\* ProgressPagesBound pages, each page extracted without a failure
ProgressSpec == ProgressInit /\ [][ProgressNext]_vars

(***************************************************************************)
(* WebScraperApp: the GUI thread and the worker threads it starts.  Here a *)
(* worker is what the application can tell of it: whether its constructor  *)
(* raised, whether its thread is alive, its stop flag, whether a request   *)
(* of it is in flight, and how many pages it has begun.                    *)
(***************************************************************************)
\* the variables of the one worker modelled in full
worker == <<options, url, running, pc, queue, visited_urls, next_url,
            locals, results, signals, iterations, fetched, env, disk, pages,
            order>>

\* scraper_thread and scraper_thread.is_alive()
is_alive(t) == t # NoThread /\ threads[t].state \in {"loop", "inflight"}

\* faulty variant of ThreadState: the thread is started although the
\* constructor raised
ThreadStateStarted(raised) == "loop"

\* start_scraping, lines 1148-1164: an exception raised by the constructor
\* leaves start_scraping at line 1148, so line 1164 starts the thread
\* only of a worker that was constructed
ThreadState(raised) == IF raised THEN "failed" ELSE "loop"

\* stop_scraping, lines 1168-1169, as far as the threads see it
StoppedThreads ==
  IF is_alive(scraper_thread)
  THEN [threads EXCEPT ![scraper_thread].running = FALSE]
  ELSE threads

\* WebScraperApp.start_scraping on a click of the start button.  With a
\* worker alive the user answers Yes (No returns at once): stop_scraping,
\* time.sleep(0.5), and on to the new worker whatever the old one does.
\* The constructor raises when os.makedirs fails, which only a crawl with
\* a download option calls.
StartScraping ==
  /\ start_button
  /\ \E w \in Workers, downloads \in BOOLEAN, raised \in BOOLEAN :
       /\ threads[w].state = "none"
       /\ \A v \in 1..(w - 1) : threads[v].state # "none"
       /\ raised => downloads
       /\ threads' = [StoppedThreads EXCEPT
                        ![w].raised = raised,
                        ![w].state = ThreadState(raised)]
       /\ timer' = (timer \/ is_alive(scraper_thread))
       /\ IF raised
          THEN UNCHANGED <<scraper_thread, start_button, stop_button>>
          ELSE /\ scraper_thread' = w
               /\ start_button' = FALSE
               /\ stop_button' = TRUE
  /\ consecutive_errors' = 0
  /\ streak' = 0
  /\ UNCHANGED <<events, offers, worker>>

\* WebScraperApp.stop_scraping on a click of the stop button
StopScraping ==
  /\ stop_button
  /\ is_alive(scraper_thread)
  /\ threads' = StoppedThreads
  /\ timer' = TRUE
  /\ UNCHANGED <<scraper_thread, start_button, stop_button, events, errs,
                 worker>>

\* check_thread_stopped, lines 1172-1178, five seconds after stop_scraping
CheckThreadStopped ==
  /\ timer
  /\ timer' = FALSE
  /\ IF is_alive(scraper_thread)
     THEN start_button' = TRUE /\ stop_button' = FALSE
     ELSE UNCHANGED <<start_button, stop_button>>
  /\ UNCHANGED <<scraper_thread, threads, events, errs, worker>>

\* a signal emitted by worker w, queued for its slot
Event(w, kind, n) == [w |-> w, sig |-> kind, streak |-> n]

\* the next queued signal is of this kind
Delivered(kind) == events # <<>> /\ Head(events).sig = kind

\* WebScraperApp.scraping_finished, the slot of the finished signal
ScrapingFinished ==
  /\ Delivered("finished")
  /\ events' = Tail(events)
  /\ start_button' = TRUE
  /\ stop_button' = FALSE
  /\ scraper_thread' = NoThread
  /\ UNCHANGED <<threads, timer, errs, worker>>

\* handle_network_error, lines 1218-1219: the count has reached
\* max_consecutive_errors and the worker referred to is alive
OffersToStop(count) ==
  /\ count >= max_consecutive_errors
  /\ is_alive(scraper_thread)

\* WebScraperApp.handle_network_error, the slot of the network_error
\* signal; the user answers the question with Yes (stop_scraping) or No
HandleNetworkError ==
  /\ Delivered("network_error")
  /\ events' = Tail(events)
  /\ consecutive_errors' = consecutive_errors + 1
  /\ IF OffersToStop(consecutive_errors + 1)
     THEN /\ offers' = Append(offers, Head(events).streak)
          /\ \E reply \in {"Yes", "No"} :
               IF reply = "Yes"
               THEN threads' = StoppedThreads /\ timer' = TRUE
               ELSE UNCHANGED <<threads, timer>>
     ELSE UNCHANGED <<offers, threads, timer>>
  /\ UNCHANGED <<scraper_thread, start_button, stop_button, streak, worker>>

\* WebScraperApp.display_results, the slot of the result signal, lines
\* 1274-1277
DisplayResults ==
  /\ Delivered("result")
  /\ events' = Tail(events)
  /\ consecutive_errors' = 0
  /\ UNCHANGED <<scraper_thread, start_button, stop_button, threads, timer,
                 streak, offers, worker>>

\* run, lines 518-522, and scrape_page, lines 307-336, of worker w: the
\* loop goes on, the guards of scrape_page pass and requests.get is called
ThreadScrape(w) ==
  /\ threads[w].state = "loop"
  /\ threads[w].running
  /\ threads[w].visited < options.max_pages
  /\ threads' = [threads EXCEPT ![w].state = "inflight",
                                ![w].attempts = 1,
                                ![w].visited = @ + 1]
  /\ UNCHANGED <<scraper_thread, start_button, stop_button, events,
                 timer, errs, worker>>

\* lines 337-506 of worker w: the request returned, the page is handled
ThreadResponse(w) ==
  /\ threads[w].state = "inflight"
  /\ threads' = [threads EXCEPT ![w].state = "loop", ![w].attempts = 0]
  /\ streak' = 0
  /\ UNCHANGED <<scraper_thread, start_button, stop_button, events,
                 timer, consecutive_errors, offers, worker>>

\* lines 339-346 of worker w: the request failed; the page is given up or
\* the next requests.get is called
ThreadFail(w) ==
  /\ threads[w].state = "inflight"
  /\ IF GivesUp(threads[w].attempts)
     THEN /\ threads' = [threads EXCEPT ![w].state = "loop",
                                        ![w].attempts = 0]
          /\ streak' = streak + 1
          /\ events' = Append(events, Event(w, "network_error", streak + 1))
     ELSE /\ threads' = [threads EXCEPT ![w].attempts = @ + 1]
          /\ UNCHANGED <<streak, events>>
  /\ UNCHANGED <<scraper_thread, start_button, stop_button,
                 timer, consecutive_errors, offers, worker>>

\* lines 518-562 of worker w: the loop ends (the queue may be empty at any
\* pass); result and finished are emitted, or finished twice when stopped,
\* and the thread ends
ThreadExit(w) ==
  /\ threads[w].state = "loop"
  /\ threads' = [threads EXCEPT ![w].state = "ended"]
  /\ events' =
       events \o (IF threads[w].running
                  THEN <<Event(w, "result", 0), Event(w, "finished", 0)>>
                  ELSE <<Event(w, "finished", 0), Event(w, "finished", 0)>>)
  /\ UNCHANGED <<scraper_thread, start_button, stop_button, timer, errs,
                 worker>>

AppNext ==
  \/ StartScraping
  \/ StopScraping
  \/ CheckThreadStopped
  \/ ScrapingFinished
  \/ HandleNetworkError
  \/ DisplayResults
  \/ \E w \in Workers : ThreadScrape(w)
  \/ \E w \in Workers : ThreadResponse(w)
  \/ \E w \in Workers : ThreadFail(w)
  \/ \E w \in Workers : ThreadExit(w)

\* the application with the workers it starts; the worker modelled in full
\* stays as constructed
AppInit ==
  /\ options = [ExtractAll EXCEPT !.max_pages = AppPagesBound]
  /\ url = SeedUrl
  /\ site = Responses
  /\ InitWorker
  /\ InitApp

AppSpec == AppInit /\ [][AppNext]_vars

\* the application with crawls of up to ErrorPagesBound pages
ErrorInit ==
  /\ options = [ExtractAll EXCEPT !.max_pages = ErrorPagesBound]
  /\ url = SeedUrl
  /\ site = Responses
  /\ InitWorker
  /\ InitApp

ErrorSpec == ErrorInit /\ [][AppNext]_vars

(***************************************************************************)
(* Properties                                                              *)
(***************************************************************************)
NoDuplicates(s) == \A i, j \in 1..Len(s) : s[i] = s[j] => i = j

IsVisitSignal(e) == e.sig = "status" /\ e.msg = "Scraping"

\* the status signal of line 314 follows each visited_urls.add of line 313
Visits == SelectSeq(signals, IsVisitSignal)

IsPageRequest(r) == r.kind = "page"

\* the requests.get calls of the current scrape_page call
PageRequests == SelectSeq(requests, IsPageRequest)

CountIn(s, x) == Cardinality({i \in 1..Len(s) : s[i] = x})

IsNetworkError(e) == e.sig = "network_error"

NetworkErrors == SelectSeq(signals, IsNetworkError)

NetworkErrorsFor(u) ==
  Cardinality({i \in 1..Len(NetworkErrors) : NetworkErrors[i].url = u})

\* C1: in every state the visited set holds at most max_pages URLs, and no
\* URL was added to it twice
C1_VisitedBounded ==
  /\ Cardinality(visited_urls) <= options.max_pages
  /\ NoDuplicates(Visits)
  /\ visited_urls = {Visits[i].url : i \in 1..Len(Visits)}

\* the page budget is used up while URLs are still queued
C1_Witness ==
  /\ pc = "loop"
  /\ running
  /\ options.max_pages >= 2
  /\ Cardinality(visited_urls) = options.max_pages
  /\ queue # <<>>

\* C2: the fetch of a page URL is started at most once in a run
C2_FetchedOnce ==
  /\ NoDuplicates(fetched)
  /\ \A i \in 1..Len(requests) :
        requests[i].kind = "page" => requests[i].url = Last(fetched)

\* a page links to a URL fetched before, while crawling is on and the page
\* budget is not used up
C2_Witness ==
  /\ pc = "images"
  /\ options.crawl_pages
  /\ Cardinality(visited_urls) < options.max_pages
  /\ Len(fetched) >= 2
  /\ \E i \in 1..Len(response.doc.hrefs) :
        normalize_url(response.doc.hrefs[i], extract_base_url(next_url))
          = fetched[1]

\* C3: the queue holds no visited URL and no URL twice
C3_QueueFresh ==
  /\ NoDuplicates(queue)
  /\ \A i \in 1..Len(queue) : queue[i] \notin visited_urls

\* the link loop has just met a link twice on one page and queued it once
C3_Witness ==
  /\ pc = "images"
  /\ \E i, j \in 1..Len(response.doc.hrefs) :
        /\ i < j
        /\ response.doc.hrefs[i] = response.doc.hrefs[j]
        /\ InSeq(response.doc.hrefs[i], queue)

\* a URL as section 4.1 wants it: absolute, http or https, and a path that
\* does not end in an excluded extension
PathEndsUnwanted(u) ==
  LET p == UrlPath(u) IN p # <<>> /\ Lower(Last(p)) \in unwanted_exts

AbsoluteHttpPage(u) ==
  /\ StartsWithHttp(u)
  /\ Netloc(u) # ""
  /\ ~PathEndsUnwanted(u)

\* C4: every queued URL is absolute http/https and its path does not end
\* in an excluded extension, query string or not
C4_QueuedUrlsArePages ==
  \A i \in 1..Len(queue) : AbsoluteHttpPage(queue[i])

\* internal as section 4.1 defines it: by the host of the seed
InternalToSeed(u) == is_internal_link(u, Netloc(url))

\* C5: a link is in the internal set iff its host is the seed host or a
\* subdomain of it, and in the external set otherwise, on every page
C5_ClassifiedBySeedHost ==
  \A l \in results.links :
     /\ l \in results.internal_links <=> InternalToSeed(l)
     /\ l \in results.external_links <=> ~InternalToSeed(l)

C6_Counts ==
  /\ Len(PageRequests) <= 3
  /\ pc = "get" => Len(PageRequests) = retry_count + 1
  /\ \A i \in 1..Len(PageRequests) : PageRequests[i].attempt = i
  /\ \A u \in visited_urls :
        /\ CountIn(results.errors, u) <= 1
        /\ NetworkErrorsFor(u) = CountIn(results.errors, u)

\* a worker step that ends a request in flight without a response
C6_AttemptFailed == pc = "get" /\ pc' # "archive" /\ running' = running

C6_Step ==
  /\ C6_AttemptFailed =>
       IF Len(PageRequests) < 3
       THEN /\ pc' = "get"
            /\ Len(PageRequests') = Len(PageRequests) + 1
            /\ results' = results
            /\ signals' = signals
       ELSE /\ pc' = "loop"
            /\ results'.errors = Append(results.errors, next_url)
            /\ signals' = Append(signals, Sig("network_error", "", next_url, 0))
  /\ pc = "get" /\ pc' = "archive" => requests' = requests
  /\ pc \notin {"scrape", "get"} => Len(PageRequests') <= Len(PageRequests)

\* C6: at most 3 attempts per page URL; a failure before the third is
\* followed by the next attempt, a success ends the retrying, the third
\* failure records one error entry and one network_error signal and the
\* worker is back at the loop of run
C6_RetryPolicy == []C6_Counts /\ [][C6_Step]_vars

\* a page is fetched on its third attempt after an earlier URL was given up
C6_Witness ==
  /\ pc = "archive"
  /\ retry_count = 2
  /\ results.errors # <<>>

C7_Step ==
  pc = "get" /\ pc' = "loop" =>
    /\ Len(PageRequests) = 3
    /\ results'.visited_pages = results.visited_pages
    /\ results'.errors = Append(results.errors, next_url)
    /\ queue' = queue
    /\ running' = running

C7_LoopGoesOn ==
  pc = "loop" /\ pc' # "loop" /\ queue # <<>> /\ running
    /\ Cardinality(visited_urls) < options.max_pages
  => pc' = "scrape" /\ next_url' = Head(queue)

\* C7: giving a page up after 3 failed attempts leaves visited_pages as it
\* is and appends one error entry, and the loop then takes the next queued
\* URL
C7_AbandonedPage ==
  /\ [](results.visited_pages + Len(results.errors)
          <= Cardinality(visited_urls))
  /\ [][C7_Step /\ C7_LoopGoesOn]_vars

\* the seed was extracted, the second URL given up, the third is in flight
C7_Witness ==
  /\ pc = "get"
  /\ results.visited_pages = 1
  /\ Len(results.errors) = 1
  /\ Len(fetched) = 3
  /\ results.errors[1] = fetched[2]

\* C8: every page whose processing raised (an error signal "Error
\* scraping <url>") has an entry in results['errors']
C8_ErrorsRecorded ==
  \A i \in 1..Len(signals) :
     signals[i].sig = "error" /\ signals[i].msg = "Error scraping"
       => InSeq(signals[i].url, results.errors)

\* C9: no HTTP request is started once the stop flag is set
C9_NoRequestAfterStop ==
  \A i \in 1..Len(requests) : requests[i].running

Finished ==
  /\ pc = "done"
  /\ signals # <<>>
  /\ Last(signals).sig = "finished"

\* C10: every run (the thread is started right after construction) ends
\* with the finished signal, and the loop body is entered at most
\* max_pages times
C10_Terminates ==
  /\ [](iterations <= options.max_pages)
  /\ <>Finished

\* a run that used its whole page budget has ended
C10_Witness ==
  /\ Finished
  /\ options.max_pages >= 2
  /\ iterations = options.max_pages

(***************************************************************************)
(* Downloads and the manifest                                              *)
(***************************************************************************)
\* C11: no file under the download root is opened for writing twice in a
\* run, so no download and no archived page overwrites an earlier one
C11_NoOverwrite == NoDuplicates(writes)


\* the manifest has a record whose local path is this file
Recorded(path) ==
  \E i \in 1..Len(manifest[path.dir]) :
     manifest[path.dir][i].local_path = path

\* the download that wrote the newest file returned its path
LastDownloadSucceeded ==
  /\ writes # <<>>
  /\ Last(writes).dir = "images"
  /\ results.downloaded_images # <<>>
  /\ Last(results.downloaded_images).local_path = Last(writes)

\* C12: every file written under images, scripts, styles or html has a
\* record in the manifest, and once a download has succeeded the manifest
\* file holds what the manifest in memory holds
C12_ManifestComplete ==
  /\ \A i \in 1..Len(writes) : Recorded(writes[i])
  /\ LastDownloadSucceeded =>
       manifest_disk = [exists |-> TRUE, downloads |-> manifest]


\* C17: with a download option set, once the first fetch has begun the
\* download root, its four subdirectories and the manifest file exist
C17_LayoutBeforeFirstFetch ==
  WantsDownloads(options) /\ fetched # <<>> =>
    /\ dirs = AllDirs
    /\ manifest_disk.exists

(***************************************************************************)
(* Counters, results and the end of a run                                  *)
(***************************************************************************)
\* C13: between two pages visited_pages is the number of pages whose HTML
\* response was passed to extraction, a page whose extraction raised
\* included
C13_VisitedPagesCount ==
  pc = "loop" => results.visited_pages = Len(routed)


\* C14: a run that has ended, completed or stopped, has emitted the result
\* signal with the accumulated results before every finished signal
C14_ResultBeforeFinished ==
  pc = "done" =>
    \E i \in 1..Len(signals) :
       /\ signals[i].sig = "result"
       /\ signals[i].val = results.visited_pages
       /\ \A j \in 1..Len(signals) : signals[j].sig = "finished" => i < j


\* the options under which C15 speaks
SinglePage == options.max_pages = 1 \/ ~options.crawl_pages

\* the queue holds nothing but the seed, and nothing once the seed has
\* been taken from it
QueueIsSeedOnly ==
  /\ \A i \in 1..Len(queue) : queue[i] = url
  /\ iterations >= 1 => queue = <<>>

\* C15 as stated: with max_pages = 1 or crawling off the queue holds
\* nothing but the seed, is empty once the seed is dequeued, and the run
\* ends with exactly one visited URL
C15_SeedOnlyExactlyOne ==
  SinglePage =>
    /\ QueueIsSeedOnly
    /\ pc = "done" => Cardinality(visited_urls) = 1

\* C15, amended: with max_pages = 1 or crawling off the queue holds
\* nothing but the seed, is empty once the seed is dequeued, the loop body
\* is entered at most once, and the run ends with the seed as the only
\* visited URL, or with no visited URL when it was stopped before the
\* fetch of the seed began
C15_SeedOnly ==
  SinglePage =>
    /\ QueueIsSeedOnly
    /\ iterations <= 1
    /\ visited_urls \subseteq {url}
    /\ pc = "done" =>
         IF fetched = <<>>
         THEN ~running /\ visited_urls = {}
         ELSE visited_urls = {url}

\* a run with crawling off and budget left has ended after extracting
\* internal links from the seed page, none of which was queued
C15_Witness ==
  /\ pc = "done"
  /\ ~options.crawl_pages
  /\ options.max_pages >= 2
  /\ results.visited_pages = 1
  /\ results.internal_links # {}
  /\ visited_urls = {url}


\* C18: whenever the worker is between two pages, every page whose
\* response was HTML has gone through extraction, whatever became of its
\* archive file and of its downloads
C18_ExtractionNotPrevented ==
  pc = "loop" => \A u \in html_pages : InSeq(u, routed)

\* the normalized URL of the i-th <a> of the page being handled
FullUrl(i) == normalize_url(response.doc.hrefs[i], extract_base_url(next_url))

\* the i-th <a> is a link at all: its href is not skipped and is valid
IsLink(i) ==
  /\ ~SkipHref(response.doc.hrefs[i])
  /\ is_valid_url(FullUrl(i))

\* the page being handled classifies x as internal (lines 380 and 399)
ClassifiedInternal(x) ==
  is_internal_link(x, Netloc(extract_base_url(next_url)))

\* the conditions of C20 for the URL x, the queue being q at that moment
MayBeQueued(x, q) ==
  /\ ClassifiedInternal(x)
  /\ options.crawl_pages
  /\ Cardinality(visited_urls) < options.max_pages
  /\ x \notin visited_urls
  /\ ~InSeq(x, q)

\* the link loop of one page: the queue keeps what it had, each appended
\* URL is a link of the page for which the conditions held when it was
\* appended, and a link for which they held is in the queue afterwards
C20_LinkLoop ==
  pc = "links" /\ pc' = "images" =>
    /\ Len(queue') >= Len(queue)
    /\ SubSeq(queue', 1, Len(queue)) = queue
    /\ \A k \in (Len(queue) + 1)..Len(queue') :
          /\ \E i \in 1..Len(response.doc.hrefs) :
                IsLink(i) /\ FullUrl(i) = queue'[k]
          /\ MayBeQueued(queue'[k], SubSeq(queue', 1, k - 1))
    /\ \A i \in 1..Len(response.doc.hrefs) :
          IsLink(i) /\ MayBeQueued(FullUrl(i), queue) =>
            InSeq(FullUrl(i), queue')

\* nothing but a link and the seed is ever appended
C20_OnlyLinks ==
  Len(queue') > Len(queue) => pc \in {"idle", "links"}

\* C20: a link is appended to the queue only if it is classified
\* internal, crawling is on, fewer than max_pages URLs are visited, and it
\* is neither visited nor queued; otherwise it leaves the queue as it is
C20_EnqueueGuard == [][C20_LinkLoop /\ C20_OnlyLinks]_vars

\* the link loop has queued one link of a page and left out a visited
\* internal link and an external link of the same page
C20_Witness ==
  /\ pc = "images"
  /\ Last(routed) = next_url
  /\ InSeq(UrlA, queue)
  /\ SeedUrl \in results.internal_links
  /\ SeedUrl \in visited_urls
  /\ ~InSeq(SeedUrl, queue)
  /\ UrlOther \in results.external_links
  /\ ~InSeq(UrlOther, queue)

(***************************************************************************)
(* The application and its workers                                         *)
(***************************************************************************)
InFlight == {w \in Workers : threads[w].state = "inflight"}

\* C16: across the application at most one worker has an HTTP request in
\* flight, also after a running crawl was replaced by a new one
C16_OneRequestInFlight == Cardinality(InFlight) <= 1


\* C19: a worker whose constructor raised (the download directories could
\* not be made) is never started: its thread is never alive, it begins no
\* page and has no request in flight, it emits nothing, and the
\* application never refers to it
C19_FailedNeverStarts ==
  \A w \in Workers :
     threads[w].raised =>
       /\ threads[w].state = "failed"
       /\ ~is_alive(w)
       /\ threads[w].visited = 0
       /\ threads[w].attempts = 0
       /\ \A i \in 1..Len(events) : events[i].w # w
       /\ scraper_thread # w

\* the constructor of the first worker raised, and the crawl started after
\* it has a request in flight
C19_Witness ==
  /\ threads[1].raised
  /\ threads[2].state = "inflight"

(***************************************************************************)
(* Stopping, and the finished signal                                       *)
(***************************************************************************)
\* the worker has seen the stop flag set where it decides on the next
\* page: at the while header of run or at the guards of scrape_page
StopSeen == ~running /\ pc \in {"loop", "scrape"}

\* what C23 wants left alone; the dequeued URL is already out of the queue
C23_Frame ==
  <<visited_urls, queue, results, manifest, manifest_disk, writes,
    fetched>>

C23_Step ==
  StopSeen =>
    /\ UNCHANGED C23_Frame
    /\ pc' \in {"loop", "done"}

\* C23: a worker that finds the stop flag set before the fetch of a page
\* begins skips the page: from then on to the end of the run the visited
\* set, the queue, the results and the manifest stay as they are and no
\* fetch begins
C23_StoppedPageSkipped == [][C23_Step]_vars

\* a run has ended whose second URL was dequeued and then skipped, with
\* another URL still queued
C23_Witness ==
  /\ pc = "done"
  /\ ~running
  /\ Len(fetched) = 1
  /\ iterations = 2
  /\ next_url \notin visited_urls
  /\ queue # <<>>

FinishedSignals == SelectSeq(signals, LAMBDA e : e.sig = "finished")

\* C29: a run that has ended has emitted the finished signal exactly once,
\* whether it completed or was stopped
C29_FinishedOnce == pc = "done" => Len(FinishedSignals) = 1

\* C30: every worker whose thread is alive is the one scraper_thread
\* refers to, so that stop_scraping reaches it
C30_AliveIsReferenced ==
  \A w \in Workers : is_alive(w) => scraper_thread = w

\* the local paths of the records of one manifest category
LocalPaths(category) ==
  [i \in 1..Len(manifest[category]) |-> manifest[category][i].local_path]

\* C25: the records appended to the manifest in a run have pairwise
\* distinct local paths
C25_DistinctLocalPaths ==
  \A category \in DOMAIN manifest : NoDuplicates(LocalPaths(category))

\* the manifest has three records of pictures with one basename: two of
\* the same URL, downloaded from two pages, and one of another host
C25_Witness ==
  \E i, j, k \in 1..Len(manifest.images) :
     /\ i < j
     /\ manifest.images[i].url = manifest.images[j].url
     /\ Netloc(manifest.images[k].url) # Netloc(manifest.images[i].url)
     /\ basename(UrlPath(manifest.images[k].url))
          = basename(UrlPath(manifest.images[i].url))
     /\ HasDot(basename(UrlPath(manifest.images[k].url)))

(***************************************************************************)
(* The order of the fetches, and the pauses between them                   *)
(***************************************************************************)
\* the place of the first x in s
FirstPos(s, x) ==
  CHOOSE i \in 1..Len(s) : s[i] = x /\ ~InSeq(x, SubSeq(s, 1, i - 1))

\* C21: every fetched URL was appended to the queue, and of two fetched
\* URLs the one first appended earlier was fetched earlier
C21_FetchedInQueueOrder ==
  /\ \A i \in 1..Len(fetched) : InSeq(fetched[i], enqueued)
  /\ \A i, j \in 1..Len(fetched) :
        FirstPos(enqueued, fetched[i]) < FirstPos(enqueued, fetched[j])
          => i < j

\* the seed page queued the blog page and then /a, and both were fetched
C21_Witness ==
  /\ enqueued = <<SeedUrl, UrlB, UrlA>>
  /\ fetched = enqueued
  /\ pc = "get"

C26_Step ==
  Len(fetched') > Len(fetched) /\ fetched # <<>> => delayed

\* C26: the fetch of a page that is not the first of its run begins only
\* after the delay pause was made since the fetch of the page before it
\* began, however that page ended
C26_DelayBetweenFetches == [][C26_Step]_vars

(***************************************************************************)
(* Responses that are not HTML                                             *)
(***************************************************************************)
\* the response at hand has a Content-Type other than text/html, with or
\* without parameters
NotHtml == response.ctype \notin {TextHtml, TextHtmlUtf8}

\* the result fields a response that is not HTML may change
ByteAndArchiveFields == {"total_data_size", "downloaded_html"}

\* the archive of the page at hand, lines 356-371
ArchiveRecord ==
  [url |-> next_url,
   local_path |-> [dir |-> "html", name |-> page_name(next_url)]]

\* the worker's step on a response that is not HTML (the only other step
\* there is the caller's, which sets the stop flag)
C22_Step ==
  pc = "archive" /\ NotHtml /\ running' = running =>
    /\ pc' = "loop"
    /\ queue' = queue
    /\ enqueued' = enqueued
    /\ routed' = routed
    /\ manifest' = manifest
    /\ \A f \in DOMAIN results \ ByteAndArchiveFields :
          results'[f] = results[f]
    /\ results'.total_data_size =
          results.total_data_size + response.doc.size
    /\ \A i \in 1..Len(signals') :
          i > Len(signals) => signals'[i].sig # "progress"
    /\ IF options.download_html /\ signals' = signals
       THEN /\ results'.downloaded_html =
                  Append(results.downloaded_html, ArchiveRecord)
            /\ writes' = Append(writes, ArchiveRecord.local_path)
       ELSE /\ results'.downloaded_html = results.downloaded_html
            /\ writes' = writes

\* C22: a response whose Content-Type does not start with text/html ends
\* the page: its bytes are counted and, with download_html, its body is
\* archived (unless writing the archive raises), and neither the link,
\* image or page counters, nor the queue, the manifest or the pages routed
\* to extraction change, and no progress is signalled
C22_NonHtmlNotExtracted ==
  /\ [][C22_Step]_vars
  /\ [](pc \in {"links", "images", "imgget"} => ~NotHtml)

\* a PDF response was archived and counted after an HTML page had been
\* extracted, and the worker is back at the loop
C22_Witness ==
  /\ pc = "loop"
  /\ results.visited_pages = 1
  /\ Len(fetched) = 2
  /\ Len(routed) = 1
  /\ Len(results.downloaded_html) = 2
  /\ results.total_data_size > 5
  /\ fetched[2] \notin html_pages

(***************************************************************************)
(* Progress                                                                *)
(***************************************************************************)
ProgressSignals == SelectSeq(signals, LAMBDA e : e.sig = "progress")

\* min(100, floor(100 * visited_pages / max_pages))
FloorPercent(visited_pages, max_pages) ==
  LET p == (100 * visited_pages) \div max_pages
  IN  IF p < 100 THEN p ELSE 100

\* C24: one progress value is emitted for each page that completed
\* extraction, the value emitted for the k-th such page is
\* min(100, floor(100 * k / max_pages)), lies between 0 and 100, and the
\* values never decrease
C24_ProgressValues ==
  /\ Len(ProgressSignals) = results.visited_pages
  /\ \A k \in 1..Len(ProgressSignals) :
        /\ ProgressSignals[k].val = FloorPercent(k, options.max_pages)
        /\ ProgressSignals[k].val \in 0..100
  /\ \A j, k \in 1..Len(ProgressSignals) :
        j <= k => ProgressSignals[j].val <= ProgressSignals[k].val

(***************************************************************************)
(* The count of network errors                                             *)
(***************************************************************************)
\* C27: the user is asked whether to stop only on a network error that is
\* at least the third with no successfully fetched page between them
C27_OfferAfterThreeInARow ==
  \A i \in 1..Len(offers) : offers[i] >= max_consecutive_errors

(***************************************************************************)
(* The extraction categories                                               *)
(***************************************************************************)
Categories ==
  {"links", "images", "text", "contacts", "meta", "forms", "resources"}

\* the result collections of a category
CategoryFields(c) ==
  CASE c = "links"     -> {"links", "internal_links", "external_links"}
    [] c = "images"    -> {"images", "downloaded_images"}
    [] c = "text"      -> {"texts"}
    [] c = "contacts"  -> {"emails", "phones"}
    [] c = "meta"      -> {"meta"}
    [] c = "forms"     -> {"forms"}
    [] c = "resources" -> {"scripts", "stylesheets"}

\* the category is enabled in the configuration
CategoryOn(c) ==
  CASE c = "links"     -> options.extract_links
    [] c = "images"    -> options.extract_images
    [] c = "text"      -> options.extract_text
    [] c = "contacts"  -> options.extract_contacts
    [] c = "meta"      -> options.extract_meta
    [] c = "forms"     -> options.extract_forms
    [] c = "resources" -> options.extract_resources

\* the result collections that are lists; the others are sets
ListFields == {"texts", "forms", "downloaded_images"}

\* the collection f of the results is empty
IsEmpty(f) ==
  IF f \in ListFields THEN results[f] = <<>> ELSE results[f] = {}

\* the collections of a disabled category are empty
C28_DisabledEmpty ==
  \A c \in Categories :
     ~CategoryOn(c) => \A f \in CategoryFields(c) : IsEmpty(f)

\* the collections of category c are the same in results and in r
SameIn(c, r) == \A f \in CategoryFields(c) : r[f] = results[f]

\* what the collections of a category hold once the category has been
\* applied to the page at hand: a value that depends on the page and on
\* what they held, and on no option
Collected(f) ==
  CASE f = "texts"       -> results.texts \o page_texts
    [] f = "emails"      -> results.emails \cup response.doc.emails
    [] f = "phones"      -> results.phones \cup response.doc.phones
    [] f = "meta"        ->
         results.meta \cup {[url |-> next_url, meta |-> response.doc.meta]}
    [] f = "forms"       -> results.forms \o page_forms
    [] f = "scripts"     ->
         results.scripts \cup page_sources(response.doc.scripts)
    [] f = "stylesheets" ->
         results.stylesheets \cup page_sources(response.doc.styles)
    [] f = "links"       ->
         results.links
           \cup {FullUrl(i) : i \in {j \in 1..Len(response.doc.hrefs) :
                                       IsLink(j)}}
    [] f = "images"      ->
         results.images
           \cup {normalize_url(Head(todo), extract_base_url(next_url))}

LaterCategories == {"text", "contacts", "meta", "forms", "resources"}

\* the link rule changes the collections of no other category, and what
\* it collects depends on the page and its own option only
C28_LinkStep ==
  pc = "links" /\ pc' = "images" =>
    /\ \A c \in Categories \ {"links"} : SameIn(c, results')
    /\ results'.links =
          IF CategoryOn("links") THEN Collected("links") ELSE {}

\* the same for each step of the image rule
C28_ImageStep ==
  pc \in {"images", "imgget"} /\ todo # <<>> /\ running' = running =>
    /\ \A c \in Categories \ {"images"} : SameIn(c, results')
    /\ pc = "images" => results'.images = Collected("images")

\* the same for the rules that follow; a page that completed extraction
\* has passed every enabled rule, a page that raised some of them
C28_LaterStep ==
  pc = "images" /\ todo = <<>> /\ running' = running =>
    /\ SameIn("links", results')
    /\ SameIn("images", results')
    /\ \A c \in LaterCategories : \A f \in CategoryFields(c) :
          IF ~CategoryOn(c) THEN results'[f] = results[f]
          ELSE IF results'.visited_pages > results.visited_pages
          THEN results'[f] = Collected(f)
          ELSE results'[f] \in {results[f], Collected(f)}

WithinDomain(h, d) ==
  LET a == HostLabels(h)
      b == HostLabels(d)
  IN  /\ b # <<>>
      /\ Len(a) >= Len(b)
      /\ SubSeq(a, Len(a) - Len(b) + 1, Len(a)) = b

\* C31: every URL the link loop appended to the queue has a host that is
\* the seed host or a subdomain of it, although each page classifies by
\* its own host; so does every URL that is requested
C31_QueuedWithinSeedDomain ==
  /\ \A i \in 2..Len(enqueued) :
       WithinDomain(Netloc(enqueued[i]), Netloc(url))
  /\ \A i \in 1..Len(fetched) :
       WithinDomain(Netloc(fetched[i]), Netloc(url))

\* seeded at example.com, a page on blog.example.com was extracted and its
\* link /a was queued as a link of the blog host
C31_Witness ==
  /\ url = SeedUrl
  /\ InSeq(UrlB, fetched)
  /\ InSeq(<<"https://", "blog.example.com", "/a">>, enqueued)

\* the URLs given up after max_retries failed attempts (lines 341-344)
Abandoned == {NetworkErrors[i].url : i \in 1..Len(NetworkErrors)}

IsScrapeError(e) == e.sig = "error" /\ e.msg = "Error scraping"

\* the URLs whose scrape_page call ended in the handler of lines 508-509
Raised ==
  {signals[i].url : i \in {j \in 1..Len(signals) : IsScrapeError(signals[j])}}

\* the URLs whose response was not HTML and that left scrape_page by the
\* return of line 376 (a response of any type whose handling raised
\* before the Content-Type test is in Raised)
SkippedNotHtml ==
  {u \in Range(fetched) : u \notin Abandoned \cup html_pages \cup Raised}

\* C32: between two pages the visited set has as many URLs as pages were
\* counted in visited_pages, given up after three attempts, skipped as
\* non-HTML, or ended by an exception; visited_pages never exceeds the size
\* of the visited set
C32_VisitedAccounting ==
  /\ results.visited_pages <= Cardinality(visited_urls)
  /\ pc = "loop" =>
       /\ Abandoned \cap Raised = {}
       /\ Cardinality(visited_urls) =
            results.visited_pages + Cardinality(Abandoned)
              + Cardinality(SkippedNotHtml) + Cardinality(Raised)

\* three URLs are visited: one page was extracted, one URL given up, one
\* response skipped as non-HTML, and the budget of three is used up
C32_Witness ==
  /\ pc = "loop"
  /\ options.max_pages = 3
  /\ Cardinality(visited_urls) = 3
  /\ results.visited_pages = 1
  /\ Cardinality(Abandoned) = 1
  /\ Cardinality(SkippedNotHtml) = 1
  /\ ~LoopCond

\* the positions in signals of the signals of the given kinds
SignalsOf(kinds) == {i \in 1..Len(signals) : signals[i].sig \in kinds}

\* C33: a run emits at most one result signal; it comes after every
\* progress, error and network_error signal and before every finished
\* signal; and once finished was emitted, a finished signal is the last
\* signal of the run
C33_ResultOrder ==
  /\ Cardinality(SignalsOf({"result"})) <= 1
  /\ \A i \in SignalsOf({"result"}) :
       /\ \A j \in SignalsOf({"progress", "error", "network_error"}) : j < i
       /\ \A j \in SignalsOf({"finished"}) : i < j
       /\ SignalsOf({"finished"}) # {} \/ pc # "done"
  /\ SignalsOf({"finished"}) # {} =>
       /\ Last(signals).sig = "finished"
       /\ pc = "done"

\* a run is over that emitted progress, error and network_error signals
\* and then its result
C33_Witness ==
  /\ pc = "done"
  /\ SignalsOf({"result"}) # {}
  /\ \A k \in {"progress", "error", "network_error"} : SignalsOf({k}) # {}

\* the (url, local path) pairs of a list of download records, in order
Pairs(list) ==
  [i \in 1..Len(list) |-> <<list[i].url, list[i].local_path>>]

\* a download_file call is under way
Downloading == pc \in {"imgget", "resget"}

\* C34: between two download calls the downloaded list of the results and
\* the list of the manifest hold the same (url, local path) pairs in the
\* same order, for images, scripts and styles, also after a download
\* that wrote its file and failed when it rewrote the manifest file
C34_ListsAgree ==
  ~Downloading =>
    /\ Pairs(results.downloaded_images) = Pairs(manifest.images)
    /\ Pairs(results.downloaded_scripts) = Pairs(manifest.scripts)
    /\ Pairs(results.downloaded_stylesheets) = Pairs(manifest.styles)

\* nothing was downloaded to the directory: no request for it is under
\* way, no file of it was written, and its list in the manifest is empty
NothingIn(directory, file_type) ==
  /\ \A i \in 1..Len(requests) : requests[i].kind # file_type
  /\ \A i \in 1..Len(writes) : writes[i].dir # directory
  /\ manifest[directory] = <<>>

\* C35: with extract_images off no image is downloaded, with
\* extract_resources off no script and no stylesheet is downloaded, and
\* with extract_links off nothing but the seed is ever put in the queue,
\* whatever download_images, download_resources and crawl_pages are
C35_GatedOnExtraction ==
  /\ ~options.extract_images =>
       /\ NothingIn("images", "image")
       /\ results.downloaded_images = <<>>
  /\ ~options.extract_resources =>
       /\ NothingIn("scripts", "script")
       /\ NothingIn("styles", "stylesheet")
       /\ results.downloaded_scripts = <<>>
       /\ results.downloaded_stylesheets = <<>>
  /\ ~options.extract_links =>
       /\ \A i \in 1..Len(enqueued) : enqueued[i] = url
       /\ Len(enqueued) <= 1

\* a run with the three extraction boxes off and download_images,
\* download_resources and crawl_pages on has extracted its page and ended
C35_Witness ==
  /\ pc = "done"
  /\ results.visited_pages = 1
  /\ ~options.extract_images /\ options.download_images
  /\ ~options.extract_resources /\ options.download_resources
  /\ ~options.extract_links /\ options.crawl_pages
  /\ writes = <<>>

=============================================================================
